---- MODULE Spec2Model ----
(***************************************************************************)
(* Model of the workflow-binding pass of the launch blueprint              *)
(* (packages/blueprints/launch-blueprint/src/blueprint.ts):                *)
(* Blueprint.synth walks the actions of one parsed workflow document and   *)
(* Blueprint.mapParametersToAction rewrites each visited action from the   *)
(* launch options, the legacy parameters and the legacy environments.      *)
(*                                                                         *)
(* JavaScript strings are modelled as tuples of one-character strings, so  *)
(* that split, startsWith, concatenation and substring are computed.       *)
(***************************************************************************)
EXTENDS Integers, Sequences, FiniteSets

\* ------------------------------------------------------------------------
\* Bounds of the model
\* ------------------------------------------------------------------------
MaxLaunchOptions == 2
MaxVariables == 2
MaxTuples == 2
MaxTop == 2
MaxChildren == 2

\* ------------------------------------------------------------------------
\* Program constants
\* ------------------------------------------------------------------------
OPTIONS_PREFIX == <<"L", "A", "U", "N", "C", "H", "_", "O", "P", "T", "I", "O", "N", "S", "_">>

DEPLOY_PREFIX == <<"a", "w", "s", "/", "c", "f", "n", "-", "d", "e", "p", "l", "o", "y", "@">>

NO_ROLE == <<"N", "o", " ", "r", "o", "l", "e", " ", "s", "e", "l", "e", "c", "t", "e", "d">>

\* ------------------------------------------------------------------------
\* JavaScript values
\* ------------------------------------------------------------------------
\* Role<...>: launchRole may be missing, and its name may be missing.
NoRole == [present |-> FALSE, hasName |-> FALSE, name |-> <<>>]

Role(n) == [present |-> TRUE, hasName |-> TRUE, name |-> n]

RoleWithoutName == [present |-> TRUE, hasName |-> FALSE, name |-> <<>>]

\* AccountConnection<...>: awsAccountConnection may be missing; a missing
\* name and an empty name are both the empty string (both are falsy).
NoConnection == [present |-> FALSE, name |-> <<>>, launchRole |-> NoRole]

Connection(n, r) == [present |-> TRUE, name |-> n, launchRole |-> r]

\* EnvironmentDefinition<...>
Definition(n, c) == [name |-> n, awsAccountConnection |-> c]

NoDefinition == Definition(<<>>, NoConnection)

\* A value of type any. "undefined" stands for undefined and null, which the
\* code never tells apart (?? and ?. treat them alike).
Undefined == [t |-> "undefined", s |-> <<>>, n |-> 0, b |-> FALSE, o |-> NoDefinition]

Str(s) == [Undefined EXCEPT !.t = "string", !.s = s]

Num(n) == [Undefined EXCEPT !.t = "number", !.n = n]

Bool(b) == [Undefined EXCEPT !.t = "boolean", !.b = b]

Obj(d) == [Undefined EXCEPT !.t = "object", !.o = d]

\* x ?? y falls through exactly when x is null or undefined
IsNullish(v) == v.t = "undefined"

\* if (x): undefined, null, "", 0 and false are falsy
Truthy(v) ==
  CASE v.t = "undefined" -> FALSE
    [] v.t = "string" -> v.s # <<>>
    [] v.t = "number" -> v.n # 0
    [] v.t = "boolean" -> v.b
    [] OTHER -> TRUE

DigitChar(d) == <<"0", "1", "2", "3", "4", "5", "6", "7", "8", "9">>[d + 1]

RECURSIVE Digits(_)
Digits(n) == IF n < 10 THEN <<DigitChar(n)>> ELSE Digits(n \div 10) \o <<DigitChar(n % 10)>>

\* x.toString() and `${x}` for the values the code stringifies
ToString(v) ==
  CASE v.t = "string" -> v.s
    [] v.t = "number" -> Digits(v.n)
    [] v.t = "boolean" -> IF v.b THEN <<"t", "r", "u", "e">> ELSE <<"f", "a", "l", "s", "e">>
    [] v.t = "object" -> <<"[", "o", "b", "j", "e", "c", "t", " ", "O", "b", "j", "e", "c", "t", "]">>
    [] OTHER -> <<"u", "n", "d", "e", "f", "i", "n", "e", "d">>

\* Array.prototype.find, given the set of the positions that pass the test:
\* the first of them, 0 if there is none
FindIndex(passing) ==
  IF passing = {} THEN 0 ELSE CHOOSE i \in passing : \A k \in passing : i <= k

\* String.prototype.startsWith
StartsWith(s, p) == Len(s) >= Len(p) /\ SubSeq(s, 1, Len(p)) = p

\* String.prototype.split with a one-character separator
RECURSIVE Split(_, _)
Split(s, sep) ==
  LET i == FindIndex({k \in 1..Len(s) : s[k] = sep})
  IN IF i = 0 THEN <<s>> ELSE <<SubSeq(s, 1, i - 1)>> \o Split(SubSeq(s, i + 1, Len(s)), sep)

\* ------------------------------------------------------------------------
\* Object.keys of a map parsed from YAML. A map is the sequence of its
\* [name, action] entries in insertion order; Object.keys lists the names that
\* are array indices first, in ascending numeric order, then the other names
\* in insertion order.
\* ------------------------------------------------------------------------
IsDigit(c) == \E d \in 0..9 : DigitChar(d) = c

DigitOf(c) == CHOOSE d \in 0..9 : DigitChar(d) = c

RECURSIVE NumericValue(_)
NumericValue(name) ==
  IF name = <<>> THEN 0
  ELSE 10 * NumericValue(SubSeq(name, 1, Len(name) - 1)) + DigitOf(name[Len(name)])

\* canonical array index: decimal digits without a leading zero (names of the
\* model are short, so the 2^32 - 2 ceiling is never reached)
IsArrayIndex(name) ==
  /\ Len(name) >= 1
  /\ Len(name) <= 9
  /\ \A i \in 1..Len(name) : IsDigit(name[i])
  /\ (Len(name) > 1 => name[1] # "0")

RECURSIVE SortedIndexNames(_)
SortedIndexNames(names) ==
  IF names = {} THEN <<>>
  ELSE LET m == CHOOSE x \in names : \A y \in names : NumericValue(x) <= NumericValue(y)
       IN <<m>> \o SortedIndexNames(names \ {m})

ObjectKeysInsertionOrder(map) == [i \in 1..Len(map) |-> map[i].name]

ObjectKeys(map) ==
  LET names == [i \in 1..Len(map) |-> map[i].name]
  IN SortedIndexNames({names[i] : i \in {j \in 1..Len(names) : IsArrayIndex(names[j])}})
       \o SelectSeq(names, LAMBDA n : ~IsArrayIndex(n))

\* workflow.Actions?.[actionName]: the position of the entry with that name
IndexOfName(map, name) == FindIndex({k \in 1..Len(map) : map[k].name = name})

\* ------------------------------------------------------------------------
\* mapParametersToAction, part 1: input variables
\* ------------------------------------------------------------------------
ResolveVariableLegacyFirst(options, optionName) ==
  LET i == FindIndex({x \in 1..Len(options.launchOptions) : options.launchOptions[x].key = optionName})
      k == FindIndex({x \in 1..Len(options.parameters) :
                        OPTIONS_PREFIX \o options.parameters[x].key = optionName})
      launchValue == IF i = 0 THEN Undefined ELSE options.launchOptions[i].value
      legacyValue == IF k = 0 THEN Undefined ELSE options.parameters[k].value
  IN IF IsNullish(legacyValue) THEN launchValue ELSE legacyValue

\* specifiedValue: launchOptions?.find(key == optionName)?.value ??
\*                 parameters.find(PREFIX + key == optionName)?.value
ResolveVariable(options, optionName) ==
  LET i == FindIndex({x \in 1..Len(options.launchOptions) : options.launchOptions[x].key = optionName})
      k == FindIndex({x \in 1..Len(options.parameters) :
                        OPTIONS_PREFIX \o options.parameters[x].key = optionName})
      launchValue == IF i = 0 THEN Undefined ELSE options.launchOptions[i].value
      legacyValue == IF k = 0 THEN Undefined ELSE options.parameters[k].value
  IN IF IsNullish(launchValue) THEN legacyValue ELSE launchValue

SubstituteVariableUnguarded(options, variable) ==
  [variable EXCEPT !.Value = Str(ToString(ResolveVariable(options, variable.Name)))]

\* the body of the loop over the variables: if (specifiedValue) Value = specifiedValue.toString()
SubstituteVariable(options, variable) ==
  LET specifiedValue == ResolveVariable(options, variable.Name)
  IN IF Truthy(specifiedValue)
     THEN [variable EXCEPT !.Value = Str(ToString(specifiedValue))]
     ELSE variable

SubstituteVariables(options, variables) ==
  [k \in 1..Len(variables) |-> SubstituteVariable(options, variables[k])]

\* the assignments to variable.Value made for the action at path
VariableWrites(options, variables, path) ==
  {[path |-> path, index |-> k, name |-> variables[k].Name,
    value |-> SubstituteVariable(options, variables[k]).Value] :
      k \in {x \in 1..Len(variables) : Truthy(ResolveVariable(options, variables[x].Name))}}

\* ------------------------------------------------------------------------
\* mapParametersToAction, part 2: the action's environment
\* ------------------------------------------------------------------------
ResolveEnvironmentLegacyFirst(options, environmentName) ==
  LET i == FindIndex({x \in 1..Len(options.launchOptions) :
                        /\ options.launchOptions[x].displayType = "environment"
                        /\ options.launchOptions[x].value.t = "object"
                        /\ options.launchOptions[x].value.o.name = environmentName})
      k == FindIndex({x \in 1..Len(options.environments) : options.environments[x].name = environmentName})
      launchValue == IF i = 0 THEN Undefined ELSE options.launchOptions[i].value
  IN IF k # 0 THEN Obj(options.environments[k]) ELSE launchValue

\* launchEnvironment: launchOptions?.find(displayType == 'environment' &&
\*   value?.name == Name)?.value ?? environments?.find(env.name == Name)
ResolveEnvironment(options, environmentName) ==
  LET i == FindIndex({x \in 1..Len(options.launchOptions) :
                        /\ options.launchOptions[x].displayType = "environment"
                        /\ options.launchOptions[x].value.t = "object"
                        /\ options.launchOptions[x].value.o.name = environmentName})
      k == FindIndex({x \in 1..Len(options.environments) : options.environments[x].name = environmentName})
      launchValue == IF i = 0 THEN Undefined ELSE options.launchOptions[i].value
  IN IF ~IsNullish(launchValue) THEN launchValue
     ELSE IF k # 0 THEN Obj(options.environments[k]) ELSE Undefined

ConnectionBindingAppended(connections, connection) ==
  Append(connections,
         [Name |-> connection.name,
          Role |-> IF connection.launchRole.present /\ connection.launchRole.hasName
                   THEN connection.launchRole.name ELSE NO_ROLE])

\* Connections = [{ Name: connection.name, Role: connection.launchRole?.name ?? 'No role selected' }]
ConnectionBinding(connections, connection) ==
  <<[Name |-> connection.name,
     Role |-> IF connection.launchRole.present /\ connection.launchRole.hasName
              THEN connection.launchRole.name ELSE NO_ROLE]>>

BindEnvironment(options, actionEnvironment) ==
  IF actionEnvironment.present /\ actionEnvironment.Name # <<>>
  THEN LET launchEnvironment == ResolveEnvironment(options, actionEnvironment.Name)
           connection == launchEnvironment.o.awsAccountConnection
       IN IF launchEnvironment.t = "object" /\ connection.present /\ connection.name # <<>>
          THEN [actionEnvironment EXCEPT
                  !.Connections = ConnectionBinding(actionEnvironment.Connections, connection)]
          ELSE actionEnvironment
  ELSE actionEnvironment

\* ------------------------------------------------------------------------
\* mapParametersToAction, part 3: parameter overrides of deploy actions
\* ------------------------------------------------------------------------
IsDeployActionLoosePrefix(action) ==
  /\ action.Identifier.t = "string"
  /\ StartsWith(action.Identifier.s, SubSeq(DEPLOY_PREFIX, 1, Len(DEPLOY_PREFIX) - 1))

\* action.Identifier?.startsWith('aws/cfn-deploy@')
IsDeployAction(action) ==
  /\ action.Identifier.t = "string"
  /\ StartsWith(action.Identifier.s, DEPLOY_PREFIX)

\* p => { tuple = p.split('='); return { key: tuple[0], value: tuple[1] } }
ParseTuple(p) ==
  LET tuple == Split(p, "=")
  IN [key |-> tuple[1], value |-> IF Len(tuple) >= 2 THEN Str(tuple[2]) ELSE Undefined]

\* override: launchOptions?.find(key == parameter.key)?.value ??
\*           parameters?.find(PREFIX + key == parameter.key)   (the entry itself)
ResolveOverride(options, key) ==
  LET i == FindIndex({x \in 1..Len(options.launchOptions) : options.launchOptions[x].key = key})
      k == FindIndex({x \in 1..Len(options.parameters) : OPTIONS_PREFIX \o options.parameters[x].key = key})
      launchValue == IF i = 0 THEN Undefined ELSE options.launchOptions[i].value
  IN IF ~IsNullish(launchValue) THEN launchValue
     ELSE IF k # 0 THEN Obj(NoDefinition) ELSE Undefined

RECURSIVE NewOverrides(_, _)
NewOverrides(options, parameters) ==
  IF parameters = <<>> THEN <<>>
  ELSE LET parameter == Head(parameters)
           override == ResolveOverride(options, parameter.key)
       IN parameter.key \o <<"=">>
            \o ToString(IF IsNullish(override) THEN parameter.value ELSE override)
            \o <<",">> \o NewOverrides(options, Tail(parameters))

RewriteOverridesKeepingComma(options, overrides) ==
  LET tuples == Split(overrides, ",")
  IN NewOverrides(options, [i \in 1..Len(tuples) |-> ParseTuple(tuples[i])])

\* the rebuilt 'parameter-overrides' string of a non-empty overrides string
RewriteOverrides(options, overrides) ==
  LET tuples == Split(overrides, ",")
      newOverrides == NewOverrides(options, [i \in 1..Len(tuples) |-> ParseTuple(tuples[i])])
  IN IF newOverrides # <<>> THEN SubSeq(newOverrides, 1, Len(newOverrides) - 1) ELSE overrides

RewriteConfiguration(options, action) ==
  IF /\ IsDeployAction(action)
     /\ action.Configuration.present
     /\ Truthy(action.Configuration.overrides)
  THEN [action.Configuration EXCEPT
          !.overrides = Str(RewriteOverrides(options, action.Configuration.overrides.s))]
  ELSE action.Configuration

\* ------------------------------------------------------------------------
\* mapParametersToAction
\* ------------------------------------------------------------------------
MapParametersToAction(options, action) ==
  [action EXCEPT !.Variables = SubstituteVariables(options, action.Variables),
                 !.Environment = BindEnvironment(options, action.Environment),
                 !.Configuration = RewriteConfiguration(options, action)]

\* ------------------------------------------------------------------------
\* State of one pass of synth over one workflow file
\* ------------------------------------------------------------------------
VARIABLES
  options,    \* this.state.options: launchOptions, parameters, environments
  workflow,   \* workflow.Actions of the parsed document, mutated in place
  original,   \* workflow.Actions as parsed (history, for before/after)
  pc,         \* "action": outer loop, "child": inner loop, "done": file written
  i,          \* position of the outer loop in Object.keys(workflow.Actions)
  j,          \* position of the inner loop in Object.keys(action.Actions)
  visits,     \* history: the paths handed to mapParametersToAction, in order
  written,    \* history: the assignments made to variable.Value
  file        \* the content of the workflow file

vars == <<options, workflow, original, pc, i, j, visits, written, file>>

\* Object.keys(workflow.Actions ?? [])
ActionKeys(actions) == ObjectKeys(actions)

ChildKeysFirstOnly(action) ==
  IF action.Actions = <<>> THEN <<>> ELSE <<ObjectKeys(action.Actions)[1]>>

\* Object.keys(action.Actions ?? [])
ChildKeys(action) == ObjectKeys(action.Actions)

\* the action at a path of insertion positions, up to three levels deep
NodeAt(actions, path) ==
  IF Len(path) = 1 THEN actions[path[1]].action
  ELSE IF Len(path) = 2 THEN actions[path[1]].action.Actions[path[2]].action
  ELSE actions[path[1]].action.Actions[path[2]].action.Actions[path[3]].action

\* const action = workflow.Actions?.[actionName]; this.mapParametersToAction(action);
VisitAction ==
  /\ pc = "action"
  /\ i <= Len(ActionKeys(workflow))
  /\ LET top == IndexOfName(workflow, ActionKeys(workflow)[i])
         action == workflow[top].action
     IN /\ workflow' = [workflow EXCEPT ![top].action = MapParametersToAction(options, action)]
        /\ visits' = Append(visits, <<top>>)
        /\ written' = written \cup VariableWrites(options, action.Variables, <<top>>)
        /\ IF ChildKeys(action) = <<>>
           THEN pc' = "action" /\ i' = i + 1 /\ j' = j
           ELSE pc' = "child" /\ i' = i /\ j' = 1
  /\ UNCHANGED <<options, original, file>>

\* const childAction = action.Actions?.[childActionName]; this.mapParametersToAction(childAction);
VisitChildAction ==
  /\ pc = "child"
  /\ LET top == IndexOfName(workflow, ActionKeys(workflow)[i])
         action == workflow[top].action
         child == IndexOfName(action.Actions, ChildKeys(action)[j])
         childAction == action.Actions[child].action
     IN /\ workflow' = [workflow EXCEPT
                          ![top].action.Actions[child].action = MapParametersToAction(options, childAction)]
        /\ visits' = Append(visits, <<top, child>>)
        /\ written' = written \cup VariableWrites(options, childAction.Variables, <<top, child>>)
        /\ IF j < Len(ChildKeys(action))
           THEN pc' = "child" /\ i' = i /\ j' = j + 1
           ELSE pc' = "action" /\ i' = i + 1 /\ j' = 1
  /\ UNCHANGED <<options, original, file>>

\* fs.writeFileSync(workflowFilePath, yaml.stringify(workflow))
WriteWorkflow ==
  /\ pc = "action"
  /\ i > Len(ActionKeys(workflow))
  /\ file' = workflow
  /\ pc' = "done"
  /\ UNCHANGED <<options, workflow, original, i, j, visits, written>>

Next == VisitAction \/ VisitChildAction \/ WriteWorkflow

\* ------------------------------------------------------------------------
\* Inputs: option sets and parsed workflow documents
\* ------------------------------------------------------------------------
BoundedSeq(S, n) == UNION {[1..k -> S] : k \in 0..n}

DistinctSeq(S, n) == {q \in BoundedSeq(S, n) : \A a, b \in 1..Len(q) : a # b => q[a] # q[b]}

Option(k, v, d) == [key |-> k, value |-> v, displayType |-> d]

Parameter(k, v) == [key |-> k, value |-> v]

Options(l, p, e) == [launchOptions |-> l, parameters |-> p, environments |-> e]

Variable(n, v) == [Name |-> n, Value |-> v]

NoEnvironment == [present |-> FALSE, Name |-> <<>>, Connections |-> <<>>]

Environment(n, c) == [present |-> TRUE, Name |-> n, Connections |-> c]

NoConfiguration == [present |-> FALSE, overrides |-> Undefined, template |-> <<>>]

Configuration(o) == [present |-> TRUE, overrides |-> o, template |-> <<"t", ".", "y", "m", "l">>]

Action(id, variables, environment, configuration, actions) ==
  [Identifier |-> id, Variables |-> variables, Environment |-> environment,
   Configuration |-> configuration, Actions |-> actions]

Entry(n, a) == [name |-> n, action |-> a]

BuildId == Str(<<"a", "w", "s", "/", "b", "u", "i", "l", "d", "@", "v", "1">>)

DeployId == Str(DEPLOY_PREFIX \o <<"v", "1">>)

\* a document with one top-level action, alone or with one child of the same content
OneOrNested(action) ==
  { <<Entry(<<"a">>, action)>>,
    <<Entry(<<"a">>, [action EXCEPT !.Actions = <<Entry(<<"c">>, action)>>])>> }

InitWith(optionSets, documents) ==
  /\ options \in optionSets
  /\ workflow \in documents
  /\ original = workflow
  /\ file = workflow
  /\ pc = "action"
  /\ i = 1
  /\ j = 1
  /\ visits = <<>>
  /\ written = {}

\* --- variables ----------------------------------------------------------
NameBoth == OPTIONS_PREFIX \o <<"a">>

NameB == <<"b">>

VariableLaunchPool ==
  {Option(NameBoth, v, "string") :
     v \in {Undefined, Str(<<>>), Str(<<"p">>), Num(0), Num(12), Bool(FALSE)}}
    \cup {Option(NameB, Str(<<"p">>), "string"), Option(NameB, Bool(TRUE), "string")}

VariableParameterLists ==
  { <<>>,
    <<Parameter(<<"a">>, Str(<<"q">>))>>,
    <<Parameter(<<"a">>, Undefined), Parameter(<<"a">>, Str(<<"q">>))>>,
    <<Parameter(<<"b">>, Str(<<"q">>))>> }

VariableOptionSets ==
  {Options(l, p, <<>>) : l \in BoundedSeq(VariableLaunchPool, MaxLaunchOptions),
                         p \in VariableParameterLists}

VariableDocuments ==
  UNION {OneOrNested(Action(BuildId, v, NoEnvironment, NoConfiguration, <<>>)) :
           v \in BoundedSeq({Variable(NameBoth, Str(<<"o">>)), Variable(NameB, Str(<<"o">>))},
                            MaxVariables)}

InitVariables == InitWith(VariableOptionSets, VariableDocuments)

SpecVariables == InitVariables /\ [][Next]_vars

\* --- environments -------------------------------------------------------
EnvE == <<"e">>

EnvF == <<"f">>

EnvironmentLaunchPool ==
  {Option(<<"x">>, Obj(Definition(EnvE, c)), "environment") :
     c \in {Connection(<<"c", "1">>, Role(<<"r", "1">>)),
            Connection(<<"c", "1">>, NoRole),
            Connection(<<"c", "1">>, RoleWithoutName),
            Connection(<<"c", "1">>, Role(<<>>)),
            Connection(<<>>, Role(<<"r", "1">>)),
            NoConnection}}
    \cup {Option(<<"y">>, Obj(Definition(EnvF, Connection(<<"c", "3">>, Role(<<"r", "3">>)))), "environment"),
          Option(<<"x">>, Obj(Definition(EnvE, Connection(<<"c", "4">>, Role(<<"r", "4">>)))), "string"),
          Option(<<"x">>, Undefined, "environment")}

EnvironmentLegacyLists ==
  { <<>>,
    <<Definition(EnvE, Connection(<<"c", "2">>, Role(<<"r", "2">>)))>>,
    <<Definition(EnvE, Connection(<<"c", "2">>, NoRole))>>,
    <<Definition(EnvE, NoConnection), Definition(EnvE, Connection(<<"c", "2">>, Role(<<"r", "2">>)))>>,
    <<Definition(EnvF, Connection(<<"c", "2">>, Role(<<"r", "2">>)))>> }

EnvironmentOptionSets ==
  {Options(l, <<>>, e) : l \in BoundedSeq(EnvironmentLaunchPool, MaxLaunchOptions),
                         e \in EnvironmentLegacyLists}

OldConnection(n) == [Name |-> <<"o", n>>, Role |-> <<"o", "r">>]

EnvironmentDocuments ==
  UNION {OneOrNested(Action(BuildId, <<>>, e, NoConfiguration, <<>>)) :
           e \in {NoEnvironment,
                  Environment(<<>>, <<OldConnection("1")>>),
                  Environment(EnvE, <<>>),
                  Environment(EnvE, <<OldConnection("1"), OldConnection("2")>>)}}

InitEnvironment == InitWith(EnvironmentOptionSets, EnvironmentDocuments)

SpecEnvironment == InitEnvironment /\ [][Next]_vars

\* --- parameter overrides ------------------------------------------------
KeyK == <<"k">>

KeyJ == <<"j">>

KeyPrefixed == OPTIONS_PREFIX \o <<"k">>

OverrideLaunchLists ==
  { <<>>,
    <<Option(KeyK, Str(<<"v">>), "string")>>,
    <<Option(KeyK, Undefined, "string")>>,
    <<Option(KeyK, Undefined, "string"), Option(KeyK, Str(<<"v">>), "string")>>,
    <<Option(KeyK, Str(<<>>), "string")>>,
    <<Option(KeyK, Num(0), "number")>>,
    <<Option(KeyK, Str(<<"v", ",", "w">>), "string")>>,
    <<Option(KeyK, Str(<<"v", "=", "w">>), "string")>>,
    <<Option(KeyJ, Str(<<"v">>), "string"), Option(KeyK, Bool(FALSE), "string")>>,
    <<Option(KeyPrefixed, Str(<<"v">>), "string")>>,
    <<Option(KeyPrefixed, Undefined, "string")>> }

OverrideParameterLists ==
  { <<>>,
    <<Parameter(KeyK, Str(<<"q">>))>>,
    <<Parameter(KeyJ, Str(<<"q">>))>> }

OverrideOptionSets ==
  {Options(l, p, <<>>) : l \in OverrideLaunchLists, p \in OverrideParameterLists}

TuplePool ==
  { <<"k", "=", "a">>, <<"j", "=", "b">>, <<"k">>, <<"k", "=", "a", "=", "b">>,
    <<"k", "=">>, KeyPrefixed \o <<"=", "a">>, <<>> }

RECURSIVE Join(_)
Join(tuples) ==
  IF Len(tuples) = 1 THEN tuples[1] ELSE tuples[1] \o <<",">> \o Join(Tail(tuples))

OverrideStrings ==
  {Join(t) : t \in BoundedSeq(TuplePool, MaxTuples) \ {<<>>}}

OverrideDocuments ==
  UNION {OneOrNested(Action(id, <<>>, NoEnvironment, c, <<>>)) :
           id \in {Undefined, BuildId, DeployId,
                   Str(SubSeq(DEPLOY_PREFIX, 1, Len(DEPLOY_PREFIX) - 1))},
           c \in {NoConfiguration, Configuration(Undefined)}
                   \cup {Configuration(Str(o)) : o \in OverrideStrings}}

InitOverrides == InitWith(OverrideOptionSets, OverrideDocuments)

SpecOverrides == InitOverrides /\ [][Next]_vars

\* --- the walk -----------------------------------------------------------
WalkLaunchLists ==
  { <<Option(<<"t">>, Str(<<"T">>), "string"), Option(<<"c">>, Str(<<"C">>), "string"),
      Option(<<"g">>, Str(<<"G">>), "string")>>,
    <<Option(<<"c">>, Str(<<"C">>), "string")>>,
    <<Option(<<"t">>, Str(<<"T">>), "string")>> }

WalkOptionSets == {Options(l, <<>>, <<>>) : l \in WalkLaunchLists}

\* an action of the walk documents: one variable, named after the action's level
LevelAction(level, actions) ==
  Action(BuildId, <<Variable(<<level>>, Str(<<"o">>))>>, NoEnvironment, NoConfiguration, actions)

\* top-level actions under distinct names, each with the same children, the
\* children either leaves or each with one child of its own
WalkDocuments ==
  {[k \in 1..Len(tops) |->
      Entry(tops[k],
            LevelAction("t",
              [m \in 1..Len(children) |->
                 Entry(children[m],
                       LevelAction("c",
                         IF deep THEN <<Entry(<<"g">>, LevelAction("g", <<>>))>> ELSE <<>>))]))] :
     tops \in DistinctSeq({<<"1", "0">>, <<"2">>, <<"b">>}, MaxTop),
     children \in DistinctSeq({<<"1", "0">>, <<"2">>, <<"c">>}, MaxChildren),
     deep \in BOOLEAN}

InitWalk == InitWith(WalkOptionSets, WalkDocuments)

SpecWalk == InitWalk /\ [][Next]_vars

\* ------------------------------------------------------------------------
\* Properties: vocabulary
\* ------------------------------------------------------------------------
Visited == {visits[k] : k \in 1..Len(visits)}

Before(path) == NodeAt(original, path)

After(path) == NodeAt(workflow, path)

\* the launch-options entries with a key, in list order
LaunchEntries(key) ==
  SelectSeq(options.launchOptions, LAMBDA option : option.key = key)

\* the legacy parameters whose key, prefixed with LAUNCH_OPTIONS_, equals a name
LegacyEntries(name) ==
  SelectSeq(options.parameters, LAMBDA parameter : OPTIONS_PREFIX \o parameter.key = name)

\* ------------------------------------------------------------------------
\* C1 (as amended): for every input variable name N for which the first
\* launch-options entry with key N has a value that is not null/undefined and
\* some legacy parameter's key prefixed with LAUNCH_OPTIONS_ equals N, every
\* value written to the variable is the string form of that launch-options
\* value, never the legacy parameter's value.
\* ------------------------------------------------------------------------
C1_LaunchValueWritten ==
  \A w \in written :
    (/\ LaunchEntries(w.name) # <<>>
     /\ ~IsNullish(LaunchEntries(w.name)[1].value)
     /\ LegacyEntries(w.name) # <<>>)
      => w.value = Str(ToString(LaunchEntries(w.name)[1].value))

\* a variable named in both sources, with different truthy values, was written
C1_Witness ==
  \E w \in written :
    /\ LaunchEntries(w.name) # <<>>
    /\ Truthy(LaunchEntries(w.name)[1].value)
    /\ LegacyEntries(w.name) # <<>>
    /\ Truthy(LegacyEntries(w.name)[1].value)
    /\ ToString(LegacyEntries(w.name)[1].value) # ToString(LaunchEntries(w.name)[1].value)
    /\ w.value = Str(ToString(LaunchEntries(w.name)[1].value))

\* C1 as stated: whenever a launch-options entry and a legacy parameter both
\* name the variable, the value written is the launch-options entry's value.
C1_Original ==
  \A w \in written :
    (LaunchEntries(w.name) # <<>> /\ LegacyEntries(w.name) # <<>>)
      => \E k \in 1..Len(LaunchEntries(w.name)) :
           w.value = Str(ToString(LaunchEntries(w.name)[k].value))

\* ------------------------------------------------------------------------
\* C2: a variable of a visited action whose Name no launch-options entry has
\* as its key and no legacy parameter has as its prefixed key keeps its Value.
\* ------------------------------------------------------------------------
C2_AbsenceIsIdentity ==
  \A path \in Visited :
    /\ Len(After(path).Variables) = Len(Before(path).Variables)
    /\ \A k \in 1..Len(Before(path).Variables) :
         LET variable == Before(path).Variables[k]
         IN (LaunchEntries(variable.Name) = <<>> /\ LegacyEntries(variable.Name) = <<>>)
              => After(path).Variables[k] = variable

\* a visited action where one variable was substituted and another, unnamed
\* by any option, was left alone
C2_Witness ==
  \E path \in Visited :
    \E k, m \in 1..Len(Before(path).Variables) :
      /\ LaunchEntries(Before(path).Variables[k].Name) = <<>>
      /\ LegacyEntries(Before(path).Variables[k].Name) = <<>>
      /\ After(path).Variables[k] = Before(path).Variables[k]
      /\ After(path).Variables[m] # Before(path).Variables[m]

\* ------------------------------------------------------------------------
\* C10: a variable of a visited action whose name resolves to a present
\* value (not null/undefined) has, after the step, the string form of that
\* value as its Value - also for "", 0 and false.
\* ------------------------------------------------------------------------
C10_SubstitutionOnPresence ==
  \A path \in Visited :
    \A k \in 1..Len(Before(path).Variables) :
      LET present ==
            IF LaunchEntries(Before(path).Variables[k].Name) # <<>>
               /\ ~IsNullish(LaunchEntries(Before(path).Variables[k].Name)[1].value)
            THEN LaunchEntries(Before(path).Variables[k].Name)[1].value
            ELSE IF LegacyEntries(Before(path).Variables[k].Name) # <<>>
                 THEN LegacyEntries(Before(path).Variables[k].Name)[1].value
                 ELSE Undefined
      IN ~IsNullish(present) => After(path).Variables[k].Value = Str(ToString(present))

\* the environment-type launch-options entries whose definition has a name
LaunchEnvironments(name) ==
  SelectSeq(options.launchOptions,
            LAMBDA option : /\ option.displayType = "environment"
                            /\ option.value.t = "object"
                            /\ option.value.o.name = name)

\* the legacy environments with a name
LegacyEnvironments(name) ==
  SelectSeq(options.environments, LAMBDA env : env.name = name)

HasNamedConnection(definition) ==
  definition.awsAccountConnection.present /\ definition.awsAccountConnection.name # <<>>

\* ------------------------------------------------------------------------
\* C3: for a visited action with Environment.Name = E, when an
\* environment-type launch-options entry whose definition is named E and a
\* legacy environment named E both exist, the binding written to Connections
\* is that of the launch-options definition's account connection (name and
\* role); the legacy environment's connection is never used.
\* ------------------------------------------------------------------------
C3_LaunchEnvironmentFirst ==
  \A path \in Visited :
    LET environment == Before(path).Environment
        launch == LaunchEnvironments(environment.Name)
    IN (/\ environment.present
        /\ environment.Name # <<>>
        /\ launch # <<>>
        /\ LegacyEnvironments(environment.Name) # <<>>)
         => LET connection == launch[1].value.o.awsAccountConnection
            IN IF HasNamedConnection(launch[1].value.o)
               THEN /\ Len(After(path).Environment.Connections) = 1
                    /\ After(path).Environment.Connections[1].Name = connection.name
                    /\ After(path).Environment.Connections[1].Role =
                         (IF connection.launchRole.present /\ connection.launchRole.hasName
                          THEN connection.launchRole.name ELSE NO_ROLE)
               ELSE After(path).Environment.Connections = environment.Connections

\* both sources define the action's environment, with different named connections
C3_Witness ==
  \E path \in Visited :
    LET environment == Before(path).Environment
        launch == LaunchEnvironments(environment.Name)
        legacy == LegacyEnvironments(environment.Name)
    IN /\ environment.present
       /\ environment.Name # <<>>
       /\ launch # <<>>
       /\ legacy # <<>>
       /\ HasNamedConnection(launch[1].value.o)
       /\ HasNamedConnection(legacy[1])
       /\ legacy[1].awsAccountConnection.name # launch[1].value.o.awsAccountConnection.name
       /\ After(path).Environment.Connections[1].Name = launch[1].value.o.awsAccountConnection.name

\* ------------------------------------------------------------------------
\* C4: whenever the environment resolved for a visited action carries an
\* account connection with a non-empty name, Environment.Connections after
\* the step is exactly the one-element list {Name: connection name, Role: r},
\* r the launch-role name if present and 'No role selected' otherwise; the
\* connections the list held before are discarded.
\* ------------------------------------------------------------------------
C4_BindingShape ==
  \A path \in Visited :
    LET environment == Before(path).Environment
        launch == LaunchEnvironments(environment.Name)
        legacy == LegacyEnvironments(environment.Name)
        resolved == IF launch # <<>> THEN launch[1].value.o
                    ELSE IF legacy # <<>> THEN legacy[1] ELSE NoDefinition
    IN (/\ environment.present
        /\ environment.Name # <<>>
        /\ HasNamedConnection(resolved))
         => After(path).Environment.Connections =
              <<[Name |-> resolved.awsAccountConnection.name,
                 Role |-> IF /\ resolved.awsAccountConnection.launchRole.present
                             /\ resolved.awsAccountConnection.launchRole.hasName
                          THEN resolved.awsAccountConnection.launchRole.name
                          ELSE <<"N", "o", " ", "r", "o", "l", "e", " ", "s", "e", "l", "e", "c", "t", "e", "d">>]>>

\* an action with two prior connections was bound to a connection without a role
C4_Witness ==
  \E path \in Visited :
    /\ Len(Before(path).Environment.Connections) = 2
    /\ Len(After(path).Environment.Connections) = 1
    /\ After(path).Environment.Connections[1].Role = NO_ROLE

\* the tuples of an override string, and the key and the value of a tuple:
\* the text before and after the tuple's first '='
TuplesOf(overrides) == Split(overrides, ",")

EqualsAt(tuple) == {k \in 1..Len(tuple) : tuple[k] = "="}

KeyOf(tuple) ==
  IF EqualsAt(tuple) = {} THEN tuple
  ELSE SubSeq(tuple, 1, (CHOOSE k \in EqualsAt(tuple) : \A m \in EqualsAt(tuple) : k <= m) - 1)

ValueOf(tuple) == SubSeq(tuple, Len(KeyOf(tuple)) + 2, Len(tuple))

WellFormed(overrides) ==
  \A k \in 1..Len(TuplesOf(overrides)) : Cardinality(EqualsAt(TuplesOf(overrides)[k])) = 1

HasDeployIdentifier(action) ==
  /\ action.Identifier.t = "string"
  /\ Len(action.Identifier.s) >= Len(DEPLOY_PREFIX)
  /\ \A k \in 1..Len(DEPLOY_PREFIX) : action.Identifier.s[k] = DEPLOY_PREFIX[k]

\* a visited deploy action with a non-empty 'parameter-overrides' string
RewrittenAt(path) ==
  /\ path \in Visited
  /\ HasDeployIdentifier(Before(path))
  /\ Before(path).Configuration.present
  /\ Truthy(Before(path).Configuration.overrides)

StripTrailingComma(overrides) ==
  IF overrides # <<>> /\ overrides[Len(overrides)] = ","
  THEN SubSeq(overrides, 1, Len(overrides) - 1) ELSE overrides

\* ------------------------------------------------------------------------
\* C5: for every deploy action with a non-empty 'parameter-overrides' string,
\* if no tuple key matches a launch-options key or a prefixed legacy
\* parameter key, the rewritten string is the input string, apart from the
\* removal of a trailing comma - for every input string, tuples without '='
\* and tuples with more than one '=' included.
\* ------------------------------------------------------------------------
C5_OverrideIdentity ==
  \A path \in Visited :
    LET overrides == Before(path).Configuration.overrides.s
    IN (/\ RewrittenAt(path)
        /\ \A k \in 1..Len(TuplesOf(overrides)) :
             /\ LaunchEntries(KeyOf(TuplesOf(overrides)[k])) = <<>>
             /\ LegacyEntries(KeyOf(TuplesOf(overrides)[k])) = <<>>)
         => After(path).Configuration.overrides = Str(StripTrailingComma(overrides))

\* ------------------------------------------------------------------------
\* C6 (as amended): for a visited deploy action whose 'parameter-overrides'
\* is a comma-separated list of well-formed key=value tuples, and provided no
\* launch-options value substituted into it contains a ',': the rewritten
\* string has the same number of tuples with the same keys in the same order;
\* each tuple whose key is the key of a launch-options entry carries the
\* string form of the value of the first such entry when that value is not
\* null/undefined; each tuple whose key matches no option and no parameter
\* keeps its original value.
\* ------------------------------------------------------------------------
Substituted(tuple) ==
  /\ LaunchEntries(KeyOf(tuple)) # <<>>
  /\ ~IsNullish(LaunchEntries(KeyOf(tuple))[1].value)

C6_OverrideRewrite ==
  \A path \in Visited :
    LET before == TuplesOf(Before(path).Configuration.overrides.s)
        after == TuplesOf(After(path).Configuration.overrides.s)
    IN (/\ RewrittenAt(path)
        /\ WellFormed(Before(path).Configuration.overrides.s)
        /\ \A k \in 1..Len(before) :
             Substituted(before[k]) =>
               \A c \in 1..Len(ToString(LaunchEntries(KeyOf(before[k]))[1].value)) :
                 ToString(LaunchEntries(KeyOf(before[k]))[1].value)[c] # ",")
         => /\ Len(after) = Len(before)
            /\ \A k \in 1..Len(before) :
                 /\ KeyOf(after[k]) = KeyOf(before[k])
                 /\ Substituted(before[k]) =>
                      ValueOf(after[k]) = ToString(LaunchEntries(KeyOf(before[k]))[1].value)
                 /\ (LaunchEntries(KeyOf(before[k])) = <<>> /\ LegacyEntries(KeyOf(before[k])) = <<>>)
                      => ValueOf(after[k]) = ValueOf(before[k])

\* 'k=a,j=b' with launch option k=v became 'k=v,j=b'
C6_Witness ==
  \E path \in Visited :
    /\ RewrittenAt(path)
    /\ Before(path).Configuration.overrides.s = <<"k", "=", "a", ",", "j", "=", "b">>
    /\ After(path).Configuration.overrides.s = <<"k", "=", "v", ",", "j", "=", "b">>
    /\ LaunchEntries(KeyK) # <<>>
    /\ LaunchEntries(KeyJ) = <<>>
    /\ LegacyEntries(KeyJ) = <<>>

\* C6 as stated: same tuples, same keys, every tuple whose key is a
\* launch-options key carries that option's value, every unmatched tuple
\* keeps its value.
C6_Original ==
  \A path \in Visited :
    LET before == TuplesOf(Before(path).Configuration.overrides.s)
        after == TuplesOf(After(path).Configuration.overrides.s)
    IN (RewrittenAt(path) /\ WellFormed(Before(path).Configuration.overrides.s))
         => /\ Len(after) = Len(before)
            /\ \A k \in 1..Len(before) :
                 /\ KeyOf(after[k]) = KeyOf(before[k])
                 /\ LaunchEntries(KeyOf(before[k])) # <<>> =>
                      \E m \in 1..Len(LaunchEntries(KeyOf(before[k]))) :
                        ValueOf(after[k]) = ToString(LaunchEntries(KeyOf(before[k]))[m].value)
                 /\ (LaunchEntries(KeyOf(before[k])) = <<>> /\ LegacyEntries(KeyOf(before[k])) = <<>>)
                      => ValueOf(after[k]) = ValueOf(before[k])

\* ------------------------------------------------------------------------
\* C7: a visited action whose Identifier is absent or does not start with
\* 'aws/cfn-deploy@' has the same Configuration map after the step as before.
\* ------------------------------------------------------------------------
C7_NonDeployUntouched ==
  \A path \in Visited :
    ~HasDeployIdentifier(Before(path)) => After(path).Configuration = Before(path).Configuration

\* a visited non-deploy action carries an override tuple that an option names,
\* and a deploy action would have been rewritten
C7_Witness ==
  \E path \in Visited :
    /\ ~HasDeployIdentifier(Before(path))
    /\ Before(path).Identifier.t = "string"
    /\ Before(path).Configuration.present
    /\ Truthy(Before(path).Configuration.overrides)
    /\ \E k \in 1..Len(TuplesOf(Before(path).Configuration.overrides.s)) :
         Substituted(TuplesOf(Before(path).Configuration.overrides.s)[k])
    /\ RewriteOverrides(options, Before(path).Configuration.overrides.s)
         # Before(path).Configuration.overrides.s
    /\ After(path).Configuration = Before(path).Configuration

\* the paths (of insertion positions) of the actions of a document, by depth
TopPaths == {<<a>> : a \in 1..Len(original)}

ChildPaths ==
  UNION {{<<a, b>> : b \in 1..Len(original[a].action.Actions)} : a \in 1..Len(original)}

GrandchildPaths ==
  UNION {{<<p[1], p[2], c>> : c \in 1..Len(Before(p).Actions)} : p \in ChildPaths}

AllPaths == TopPaths \cup ChildPaths \cup GrandchildPaths

VisitCount(path) == Cardinality({k \in 1..Len(visits) : visits[k] = path})

\* the order of Object.keys between the entries at positions x and y of a map
KeyBefore(map, x, y) ==
  IF IsArrayIndex(map[x].name) /\ IsArrayIndex(map[y].name)
  THEN NumericValue(map[x].name) < NumericValue(map[y].name)
  ELSE IF IsArrayIndex(map[x].name) THEN TRUE
  ELSE IF IsArrayIndex(map[y].name) THEN FALSE
  ELSE x < y

\* the value a variable has once its action has been processed
Substitution(variable) ==
  IF LaunchEntries(variable.Name) # <<>> /\ Truthy(LaunchEntries(variable.Name)[1].value)
  THEN [variable EXCEPT !.Value = Str(ToString(LaunchEntries(variable.Name)[1].value))]
  ELSE variable

====
